---- MODULE Spec2Model ----
(***************************************************************************)
(* Third-Eye: the detection-to-announcement pipeline of the                *)
(* ObjectDetection component (src/unnamed/part_000), driven by the frames  *)
(* of CameraFeed and the settings of App/Settings.                         *)
(*                                                                         *)
(* Units.  JavaScript numbers are modelled by integers:                    *)
(*   - bounding-box coordinates and sizes in tenths of a coordinate unit   *)
(*     (x = 0.1 is 1, width = 200 is 2000);                                *)
(*   - distances, warningDistance, voiceRate and voicePitch in tenths      *)
(*     (5.0 m is 50, rate 1.2 is 12);                                      *)
(*   - times in milliseconds, as Date.now() gives them.                    *)
(* The value Infinity of a JavaScript number is the constant Infinity.     *)
(***************************************************************************)
EXTENDS Integers, Sequences, FiniteSets, TLC

(***************************************************************************)
(* Bounds of the model.                                                    *)
(***************************************************************************)
StartTime == 2000     \* Date.now() when the component mounts
MaxTicks == 3         \* clock advances explored
MaxFrames == 2        \* frames delivered by captureFrame
MaxLoads == 2         \* runs of the model-load effect
MaxChanges == 2       \* settings changes made by the user
MaxCycles == 2        \* processFrame calls that may be awaiting at once
MaxDetections == 2    \* predictions returned for one frame
MaxDistance == 101    \* largest finite distance (in tenths) the tiers are tabulated for
MaxSide == 12         \* longest side of the boxes measured, in steps of 40 pixels
MaxCoordinate == 15   \* largest x and half the largest width (in tenths) of the boxes labelled

(***************************************************************************)
(* Program constants.                                                      *)
(***************************************************************************)
ThrottleMs == 2000            \* speak / announceDetections: "< 2000"
CalibrationK == 1000000       \* estimateDistance: Math.sqrt(1000000 / area)
Infinity == 2000000000        \* the JavaScript number Infinity (n / 0)

dangerousObjects == {"person", "car", "truck", "motorcycle", "bicycle", "bus"}
obstacles == {"chair", "bench", "pole", "fire hydrant", "stop sign"}

PathClearMessage == "Path is clear ahead"
ReadyMessage == "Object detection system is ready. I will help you navigate safely."
LoadErrorMessage == "Failed to load the object detection model"
FrameErrorMessage == "Failed to process image"

(***************************************************************************)
(* Exact arithmetic for Math.round(Math.sqrt(1000000 / area) * 10) / 10.   *)
(* With the area a in hundredths (width and height in tenths) the result   *)
(* in tenths is round(sqrt(10^4 * K / a)), and round(y) = n exactly when   *)
(* (2n-1)^2 * a <= 4 * 10^4 * K < (2n+1)^2 * a  (Math.round rounds a half  *)
(* up).  4 * 10^4 * K exceeds 32 bits, so it is kept as decimal digits and *)
(* divided by long division.  On the boxes of the model the double         *)
(* arithmetic of the source gives the same result: a value that is not     *)
(* exactly a half is at a relative distance of at least 1/(4 * 10^10) from *)
(* one, far above the rounding error of three double operations.           *)
(***************************************************************************)
RECURSIVE Digits(_)
Digits(n) == IF n < 10 THEN <<n>> ELSE Digits(n \div 10) \o <<n % 10>>

\* the decimal digits of 4 * CalibrationK * 10^4
RadicandDigits == Digits(4 * CalibrationK) \o <<0, 0, 0, 0>>

\* floor(digits / c) for 0 < c < 2 * 10^8, saturating at 2 * 10^9
RECURSIVE LongDiv(_, _, _, _)
LongDiv(digits, c, q, r) ==
    IF digits = <<>> THEN q
    ELSE LET r1 == 10 * r + Head(digits)
             q1 == IF q >= 200000000 THEN 2000000000 ELSE 10 * q + (r1 \div c)
         IN  LongDiv(Tail(digits), c, q1, r1 % c)

\* m * m * a <= 4 * CalibrationK * 10^4, for m >= 1 and 1 <= a < 2 * 10^8
FitsUnder(m, a) ==
    IF m <= 44721
    THEN m * m <= LongDiv(RadicandDigits, a, 0, 0)     \* m * m <= 2 * 10^9
    ELSE /\ a < 20                                     \* else m * m * a > 4 * 10^10
         /\ m <= 200000
         /\ m <= LongDiv(RadicandDigits, m * a, 0, 0)

\* the largest n in lo..hi with FitsUnder(2n - 1, a), given that lo is one
RECURSIVE RoundSearch(_, _, _)
RoundSearch(a, lo, hi) ==
    IF lo = hi THEN lo
    ELSE LET mid == (lo + hi + 1) \div 2
         IN  IF FitsUnder(2 * mid - 1, a)
             THEN RoundSearch(a, mid, hi)
             ELSE RoundSearch(a, lo, mid - 1)

(***************************************************************************)
(* Bounding boxes <<x, y, width, height>> the detection model may report,  *)
(* in tenths.  The estimated distance of each is in its name.              *)
(***************************************************************************)
Box200 == <<0, 0, 2000, 2000>>            \* 200 x 200: 5.0 m
Box420 == <<100, 100, 4200, 4200>>        \* 420 x 420: 2.4 m
Box500 == <<0, 0, 5000, 5000>>            \* 500 x 500: 2.0 m
Box833 == <<1000, 0, 8333, 8333>>         \* 833.3 x 833.3: 1.2 m
Box1000 == <<0, 0, 10000, 10000>>         \* 1000 x 1000: 1.0 m
BoxLeft == <<1, 1, 2, 2>>                 \* 0.2 x 0.2 at 0.1: 5000.0 m
BoxAhead == <<4, 4, 2, 2>>                \* 0.2 x 0.2 at 0.4: 5000.0 m
BoxLeftEdge == <<2, 1, 2, 2>>             \* 0.2 x 0.2 at 0.2: centerX = 0.3
BoxRightEdge == <<6, 4, 2, 2>>            \* 0.2 x 0.2 at 0.6: centerX = 0.7
BoxFlat == <<0, 0, 0, 2000>>              \* 0 x 200: zero area

Boxes ==
    {Box200, Box420, Box500, Box833, Box1000, BoxLeft, BoxAhead, BoxLeftEdge,
     BoxRightEdge, BoxFlat}

(***************************************************************************)
(* estimateDistance: bbox = <<x, y, width, height>>.  A zero area divides  *)
(* by zero: 1000000 / 0 is Infinity, and so are its square root and its    *)
(* rounding.                                                               *)
(***************************************************************************)
\* round(sqrt(10^4 * CalibrationK / a)) for an area a >= 1 in hundredths
RoundedSqrt(a) == RoundSearch(a, 0, 100001)

\* the areas of the boxes the model draws from (Boxes is defined with them),
\* with their rounded square roots computed once
RoundedSqrtOfBoxes ==
    [a \in {b[3] * b[4] : b \in Boxes} \ {0} |-> RoundedSqrt(a)]

\* estimateDistance taking the width for both sides of the box
estimateDistanceFromWidth(bbox) ==
    LET width == bbox[3]
        area == width * width
    IN  IF area = 0 THEN Infinity
        ELSE IF area \in DOMAIN RoundedSqrtOfBoxes THEN RoundedSqrtOfBoxes[area]
        ELSE RoundedSqrt(area)

estimateDistance(bbox) ==
    LET width == bbox[3]
        height == bbox[4]
        area == width * height
    IN  IF area = 0 THEN Infinity
        ELSE IF area \in DOMAIN RoundedSqrtOfBoxes THEN RoundedSqrtOfBoxes[area]
        ELSE RoundedSqrt(area)

(***************************************************************************)
(* getDirectionalGuidance: centerX = x + width / 2, here doubled (in       *)
(* twentieths): centerX < 0.3 is 2x + width < 6, centerX > 0.7 is > 14.    *)
(* For x and width in whole tenths from 0 the double sum x + width / 2    *)
(* compares with the doubles 0.3 and 0.7 as the exact sum does with 3/10   *)
(* and 7/10.                                                               *)
(***************************************************************************)
\* getDirectionalGuidance with the boundaries given to the sides
getDirectionalGuidanceInclusive(bbox) ==
    LET x == bbox[1]
        width == bbox[3]
        centerX2 == 2 * x + width
    IN  IF centerX2 <= 6 THEN "on your left"
        ELSE IF centerX2 >= 14 THEN "on your right"
        ELSE "directly ahead"

getDirectionalGuidance(bbox) ==
    LET x == bbox[1]
        width == bbox[3]
        centerX2 == 2 * x + width
    IN  IF centerX2 < 6 THEN "on your left"
        ELSE IF centerX2 > 14 THEN "on your right"
        ELSE "directly ahead"

(***************************************************************************)
(* The comparisons of getPriorityLevel and announceDetections.             *)
(* warningDistance * 0.5 is exact in double arithmetic.                    *)
(* warningDistance * 0.4 is not: 0.4 is the double 0.4000000000000000222,  *)
(* and for the slider values below the product rounds to the double above  *)
(* the one nearest to the exact product (3 * 0.4 = 1.2000000000000002), so *)
(* that a distance equal to the exact product compares as smaller.         *)
(***************************************************************************)
\* Settings: the warning-distance slider (min 1, max 10, step 0.5)
WarningDistances == {10 + 5 * i : i \in 0..18}

\* the values w of that slider with
\* w * 0.4 > the double nearest to the exact product: 1.5, 3, 3.5, 6, 7, 8.5, 9.5
RoundsUpTimes04 == {15, 30, 35, 60, 70, 85, 95}

\* distance < warningDistance
LessThan(distance, warningDistance) ==
    distance # Infinity /\ distance < warningDistance

\* distance < warningDistance * 0.5
LessThanHalf(distance, warningDistance) ==
    distance # Infinity /\ 2 * distance < warningDistance

\* distance < warningDistance * 0.4
LessThanFourTenths(distance, warningDistance) ==
    /\ distance # Infinity
    /\ \/ 10 * distance < 4 * warningDistance
       \/ /\ 10 * distance = 4 * warningDistance
          /\ warningDistance \in RoundsUpTimes04

(***************************************************************************)
(* getPriorityLevel, with the warningDistance its closure holds.           *)
(***************************************************************************)
\* getPriorityLevel with the bands of the dangerous classes in reverse order
getPriorityLevelFarFirst(detection, warningDistance) ==
    LET distance == detection.distance
    IN  IF detection.class \in dangerousObjects
        THEN IF LessThanHalf(distance, warningDistance) THEN 3
             ELSE IF LessThan(distance, warningDistance) THEN 2
             ELSE 1
        ELSE IF detection.class \in obstacles
        THEN IF LessThanFourTenths(distance, warningDistance) THEN 2
             ELSE 4
        ELSE 5

getPriorityLevel(detection, warningDistance) ==
    LET distance == detection.distance
    IN  IF detection.class \in dangerousObjects
        THEN IF LessThanHalf(distance, warningDistance) THEN 1
             ELSE IF LessThan(distance, warningDistance) THEN 2
             ELSE 3
        ELSE IF detection.class \in obstacles
        THEN IF LessThanFourTenths(distance, warningDistance) THEN 2
             ELSE 4
        ELSE 5

(***************************************************************************)
(* State.                                                                  *)
(***************************************************************************)
VARIABLES
    now,                    \* Date.now()
    speechSynthesis,        \* window.speechSynthesis is present
    props,                  \* the settings App passes down (its useState values)
    imageData,              \* the imageData prop: 0 is null, n the n-th frame
    model,                  \* the model state: 0 is null, n the n-th loaded model
    loading,                \* the loading state
    error,                  \* the error state ("null" or a message)
    detections,             \* the detections state, shown in the list
    lastAnnouncementTime,   \* lastAnnouncementTimeRef.current
    processingLock,         \* processingLock.current
    awaiting,               \* processFrame calls suspended at await model.detect
    loads,                  \* loadModel calls suspended at their awaits
    loadsStarted,           \* runs of the model-load effect so far
    changes,                \* settings changes so far
    spokenAt,               \* history: when speechSynthesis.speak was called
    utterance,              \* history: the latest utterance given to it
    cycle,                  \* history: the latest processFrame call that settled
    rejected                \* history: frames that arrived while the lock was held

vars == <<now, speechSynthesis, props, imageData, model, loading, error,
          detections, lastAnnouncementTime, processingLock, awaiting, loads,
          loadsStarted, changes, spokenAt, utterance, cycle, rejected>>

TickMs == 1000              \* granularity of the modelled clock

NoUtterance == [text |-> "(nothing)", rate |-> 0, pitch |-> 0, at |-> 0]

\* App.tsx: the useState defaults
DefaultProps ==
    [warningDistance |-> 30, voiceRate |-> 12, voicePitch |-> 10,
     filteredObjects |-> {"person", "car", "truck", "motorcycle", "bicycle"},
     voiceEnabled |-> TRUE]

NoCycle ==
    [ok |-> FALSE, threw |-> FALSE, imageData |-> 0, props |-> DefaultProps,
     predictions |-> <<>>, at |-> 0]

\* Settings: availableObjects
availableObjects ==
    {"person", "car", "truck", "motorcycle", "bicycle", "bus",
     "chair", "bench", "pole", "fire hydrant", "stop sign"}

(***************************************************************************)
(* speak(text), with the props its closure holds.  s is the speech state   *)
(* [last, spokenAt, utterance]; the result is that state after the call.   *)
(***************************************************************************)
\* speak without the cooldown check
speakNoThrottle(text, closure, s) ==
    IF ~closure.voiceEnabled \/ ~speechSynthesis THEN s
    ELSE [last |-> now,
          spokenAt |-> Append(s.spokenAt, now),
          utterance |-> [text |-> text, rate |-> closure.voiceRate,
                         pitch |-> closure.voicePitch, at |-> now]]

\* speak with the utterance's rate left at the default of App
speakDefaultRate(text, closure, s) ==
    IF ~closure.voiceEnabled \/ ~speechSynthesis THEN s
    ELSE IF now - s.last < ThrottleMs THEN s
    ELSE [last |-> now,
          spokenAt |-> Append(s.spokenAt, now),
          utterance |-> [text |-> text, rate |-> 12,
                         pitch |-> closure.voicePitch, at |-> now]]

\* speak with the timestamp written before the cooldown check
speakStampsFirst(text, closure, s) ==
    IF ~closure.voiceEnabled \/ ~speechSynthesis THEN s
    ELSE IF now - s.last < ThrottleMs THEN [s EXCEPT !.last = now]
    ELSE [last |-> now,
          spokenAt |-> Append(s.spokenAt, now),
          utterance |-> [text |-> text, rate |-> closure.voiceRate,
                         pitch |-> closure.voicePitch, at |-> now]]

\* speak writing the timestamp although voice is off or speech is absent
speakStampsWhenMuted(text, closure, s) ==
    IF ~closure.voiceEnabled \/ ~speechSynthesis THEN [s EXCEPT !.last = now]
    ELSE IF now - s.last < ThrottleMs THEN s
    ELSE [last |-> now,
          spokenAt |-> Append(s.spokenAt, now),
          utterance |-> [text |-> text, rate |-> closure.voiceRate,
                         pitch |-> closure.voicePitch, at |-> now]]

\* speak writing the timestamp for the first utterance only
speakStampsOnce(text, closure, s) ==
    IF ~closure.voiceEnabled \/ ~speechSynthesis THEN s
    ELSE IF now - s.last < ThrottleMs THEN s
    ELSE [last |-> IF s.last = 0 THEN now ELSE s.last,
          spokenAt |-> Append(s.spokenAt, now),
          utterance |-> [text |-> text, rate |-> closure.voiceRate,
                         pitch |-> closure.voicePitch, at |-> now]]

speak(text, closure, s) ==
    IF ~closure.voiceEnabled \/ ~speechSynthesis THEN s
    ELSE IF now - s.last < ThrottleMs THEN s
    ELSE [last |-> now,
          spokenAt |-> Append(s.spokenAt, now),
          utterance |-> [text |-> text, rate |-> closure.voiceRate,
                         pitch |-> closure.voicePitch, at |-> now]]

(***************************************************************************)
(* announceDetections: the filter, the stable sort by (priority, distance) *)
(* and the message of the first element.                                   *)
(***************************************************************************)
RECURSIVE filter(_, _)
filter(dets, filteredObjects) ==
    IF dets = <<>> THEN <<>>
    ELSE IF Head(dets).class \in filteredObjects
    THEN <<Head(dets)>> \o filter(Tail(dets), filteredObjects)
    ELSE filter(Tail(dets), filteredObjects)

\* the comparator without its tie-break on the distance
sortsBeforeByPriorityOnly(a, b, warningDistance) ==
    getPriorityLevel(a, warningDistance) < getPriorityLevel(b, warningDistance)

\* the comparator of the sort is negative: a sorts before b
sortsBefore(a, b, warningDistance) ==
    LET pa == getPriorityLevel(a, warningDistance)
        pb == getPriorityLevel(b, warningDistance)
    IN  IF pa # pb THEN pa < pb
        ELSE a.distance # Infinity /\ a.distance < b.distance

\* Array.prototype.sort is stable: d goes before the first element it
\* sorts before, after every element that compares equal
RECURSIVE insert(_, _, _)
insert(d, sorted, warningDistance) ==
    IF sorted = <<>> THEN <<d>>
    ELSE IF sortsBefore(d, Head(sorted), warningDistance)
    THEN <<d>> \o sorted
    ELSE <<Head(sorted)>> \o insert(d, Tail(sorted), warningDistance)

RECURSIVE sort(_, _)
sort(dets, warningDistance) ==
    IF dets = <<>> THEN <<>>
    ELSE insert(dets[Len(dets)],
                sort(SubSeq(dets, 1, Len(dets) - 1), warningDistance),
                warningDistance)

\* the distance printed without its decimal
toFixedNoDecimals(distance) ==
    IF distance = Infinity THEN "Infinity"
    ELSE ToString(distance \div 10)

\* Number.prototype.toFixed(1) of a distance
toFixed1(distance) ==
    IF distance = Infinity THEN "Infinity"
    ELSE ToString(distance \div 10) \o "." \o ToString(distance % 10)

\* the message with the prefix given below the whole warning distance
composeWarnsBelowThreshold(mostImportant, warningDistance) ==
    LET distance == mostImportant.distance
        direction == getDirectionalGuidance(mostImportant.bbox)
        message == mostImportant.class \o " detected " \o direction \o ", "
                   \o toFixed1(distance) \o " meters away"
    IN  IF LessThan(distance, warningDistance)
        THEN "Warning! " \o message
        ELSE message

composeMessage(mostImportant, warningDistance) ==
    LET distance == mostImportant.distance
        direction == getDirectionalGuidance(mostImportant.bbox)
        message == mostImportant.class \o " detected " \o direction \o ", "
                   \o toFixed1(distance) \o " meters away"
    IN  IF LessThanHalf(distance, warningDistance)
        THEN "Warning! " \o message
        ELSE message

\* announceDetections with the filter applied before the empty-list check
announceFilterFirst(dets, closure, s) ==
    IF ~closure.voiceEnabled \/ ~speechSynthesis THEN s
    ELSE IF now - s.last < ThrottleMs THEN s
    ELSE LET filteredDetections == filter(dets, closure.filteredObjects)
         IN  IF Len(filteredDetections) = 0 THEN s
             ELSE LET sortedDetections ==
                          sort(filteredDetections, closure.warningDistance)
                      mostImportant == sortedDetections[1]
                  IN  speak(composeMessage(mostImportant, closure.warningDistance),
                            closure, s)

\* announceDetections announcing a clear path when the filter leaves nothing
announceClearWhenFiltered(dets, closure, s) ==
    IF ~closure.voiceEnabled \/ ~speechSynthesis THEN s
    ELSE IF now - s.last < ThrottleMs THEN s
    ELSE LET filteredDetections == filter(dets, closure.filteredObjects)
         IN  IF Len(filteredDetections) = 0
             THEN speak(PathClearMessage, closure, s)
             ELSE LET sortedDetections ==
                          sort(filteredDetections, closure.warningDistance)
                      mostImportant == sortedDetections[1]
                  IN  speak(composeMessage(mostImportant, closure.warningDistance),
                            closure, s)

\* announceDetections with the cooldown kept for the clear-path message only
announceDetectionsUnthrottled(dets, closure, s) ==
    IF ~closure.voiceEnabled \/ ~speechSynthesis THEN s
    ELSE IF Len(dets) = 0 THEN speak(PathClearMessage, closure, s)
    ELSE LET filteredDetections == filter(dets, closure.filteredObjects)
         IN  IF Len(filteredDetections) = 0 THEN s
             ELSE LET sortedDetections ==
                          sort(filteredDetections, closure.warningDistance)
                      mostImportant == sortedDetections[1]
                  IN  speakNoThrottle(
                          composeMessage(mostImportant, closure.warningDistance),
                          closure, s)

\* announceDetections choosing the last of the ranking after an earlier utterance
announceDetectionsByHistory(dets, closure, s) ==
    IF ~closure.voiceEnabled \/ ~speechSynthesis THEN s
    ELSE IF now - s.last < ThrottleMs THEN s
    ELSE IF Len(dets) = 0 THEN speak(PathClearMessage, closure, s)
    ELSE LET filteredDetections == filter(dets, closure.filteredObjects)
         IN  IF Len(filteredDetections) = 0 THEN s
             ELSE LET sortedDetections ==
                          sort(filteredDetections, closure.warningDistance)
                      mostImportant ==
                          IF s.last = 0 THEN sortedDetections[1]
                          ELSE sortedDetections[Len(sortedDetections)]
                  IN  speak(composeMessage(mostImportant, closure.warningDistance),
                            closure, s)

announceDetections(dets, closure, s) ==
    IF ~closure.voiceEnabled \/ ~speechSynthesis THEN s
    ELSE IF now - s.last < ThrottleMs THEN s
    ELSE IF Len(dets) = 0 THEN speak(PathClearMessage, closure, s)
    ELSE LET filteredDetections == filter(dets, closure.filteredObjects)
         IN  IF Len(filteredDetections) = 0 THEN s
             ELSE LET sortedDetections ==
                          sort(filteredDetections, closure.warningDistance)
                      mostImportant == sortedDetections[1]
                  IN  speak(composeMessage(mostImportant, closure.warningDistance),
                            closure, s)

(***************************************************************************)
(* What the external collaborators may produce, and what the user may set. *)
(***************************************************************************)
\* predictions of the detection model: [bbox, class, score], score in percent
PersonAt5 == [bbox |-> Box200, class |-> "person", score |-> 90]
PersonAt1 == [bbox |-> Box833, class |-> "person", score |-> 80]
PersonLeft == [bbox |-> BoxLeft, class |-> "person", score |-> 90]
CarAt2 == [bbox |-> Box500, class |-> "car", score |-> 85]
CarAhead == [bbox |-> BoxAhead, class |-> "car", score |-> 60]
ChairAt1 == [bbox |-> Box1000, class |-> "chair", score |-> 75]
ChairAt12 == [bbox |-> Box833, class |-> "chair", score |-> 65]
ChairAt24 == [bbox |-> Box420, class |-> "chair", score |-> 55]
DogAt2 == [bbox |-> Box500, class |-> "dog", score |-> 70]
PersonLeftEdge == [bbox |-> BoxLeftEdge, class |-> "person", score |-> 60]
CarRightEdge == [bbox |-> BoxRightEdge, class |-> "car", score |-> 60]
PersonFlat == [bbox |-> BoxFlat, class |-> "person", score |-> 50]

\* the predictions with a box of positive area
Predictions ==
    {PersonAt5, PersonAt1, PersonLeft, CarAt2, CarAhead, ChairAt1, ChairAt12,
     ChairAt24, DogAt2, PersonLeftEdge, CarRightEdge}

RECURSIVE ListsUpTo(_, _)
ListsUpTo(S, n) ==
    IF n = 0 THEN {<<>>}
    ELSE LET shorter == ListsUpTo(S, n - 1)
         IN  shorter \cup {Append(l, d) : l \in shorter, d \in S}

PredictionLists == ListsUpTo(Predictions, MaxDetections)

\* what the detection model returns in the runs of the whole component
SceneLists ==
    {<<>>, <<PersonAt1>>, <<DogAt2>>, <<DogAt2, PersonAt5>>, <<PersonFlat>>}

\* values the Settings controls are moved to
SettingValues ==
    [warningDistance |-> {30, 100},
     voiceRate |-> {12, 10},
     voicePitch |-> {10, 15},
     filteredObjects |-> {DefaultProps.filteredObjects, {"chair"}},
     voiceEnabled |-> BOOLEAN]

VoiceSettings == {"voiceEnabled", "voiceRate", "voicePitch"}

(***************************************************************************)
(* The detection model loads on mount: the component is mounted, the first *)
(* loadModel call is suspended at its first await.                         *)
(***************************************************************************)
Init ==
    /\ now = StartTime
    /\ speechSynthesis \in BOOLEAN
    /\ props = DefaultProps
    /\ imageData = 0
    /\ model = 0
    /\ loading = TRUE
    /\ error = "null"
    /\ detections = <<>>
    /\ lastAnnouncementTime = 0
    /\ processingLock = FALSE
    /\ awaiting = <<>>
    /\ loads = <<DefaultProps>>
    /\ loadsStarted = 1
    /\ changes = 0
    /\ spokenAt = <<>>
    /\ utterance = NoUtterance
    /\ cycle = NoCycle
    /\ rejected = {}

(***************************************************************************)
(* The frame effect (useEffect with [imageData, model, announceDetections, *)
(* estimateDistance]) as it runs after a commit that changed one of them:  *)
(* img, mdl and p are the imageData, model and props of that render.       *)
(* processFrame runs up to its await: it takes the lock and suspends.      *)
(***************************************************************************)
\* the guard of the frame effect without the lock
startsCycleIgnoringLock(img, mdl) ==
    ~(img = 0 \/ mdl = 0)

startsCycle(img, mdl) ==
    ~(img = 0 \/ mdl = 0 \/ processingLock)

FrameEffect(img, mdl, p, arrival) ==
    IF startsCycle(img, mdl) /\ Len(awaiting) < MaxCycles
    THEN /\ processingLock' = TRUE
         /\ awaiting' = Append(awaiting, [imageData |-> img, props |-> p])
         /\ rejected' = rejected
    ELSE /\ UNCHANGED <<processingLock, awaiting>>
         /\ rejected' = IF arrival /\ img # 0 /\ mdl # 0 /\ processingLock
                        THEN rejected \cup {img}
                        ELSE rejected

\* the clock advances
Tick ==
    /\ now < StartTime + MaxTicks * TickMs
    /\ now' = now + TickMs
    /\ UNCHANGED <<speechSynthesis, props, imageData, model, loading, error,
                   detections, lastAnnouncementTime, processingLock, awaiting,
                   loads, loadsStarted, changes, spokenAt, utterance, cycle,
                   rejected>>

\* CameraFeed.captureFrame: setCurrentImageData(a new ImageData)
FrameArrives ==
    /\ imageData < MaxFrames
    /\ imageData' = imageData + 1
    /\ FrameEffect(imageData', model, props, TRUE)
    /\ UNCHANGED <<now, speechSynthesis, props, model, loading, error,
                   detections, lastAnnouncementTime, loads, loadsStarted,
                   changes, spokenAt, utterance, cycle>>

(***************************************************************************)
(* Settings: a control sets one setting to another value.  speak depends   *)
(* on the voice settings, so a change of one re-runs the model-load effect *)
(* (useEffect with [speak]); announceDetections depends on every setting,  *)
(* so any change re-runs the frame effect.  The rate and pitch sliders are *)
(* rendered only while voice is enabled.                                   *)
(***************************************************************************)
\* a settings change with the model-load effect run on mount only
ChangeSettingNoReload(key, value) ==
    /\ changes < MaxChanges
    /\ value # props[key]
    /\ key \in {"voiceRate", "voicePitch"} => props.voiceEnabled
    /\ changes' = changes + 1
    /\ props' = [props EXCEPT ![key] = value]
    /\ FrameEffect(imageData, model, props', FALSE)
    /\ UNCHANGED <<now, speechSynthesis, imageData, model, loading, error,
                   detections, lastAnnouncementTime, loads, loadsStarted,
                   spokenAt, utterance, cycle>>

ChangeSetting(key, value) ==
    /\ changes < MaxChanges
    /\ value # props[key]
    /\ key \in {"voiceRate", "voicePitch"} => props.voiceEnabled
    /\ key \in VoiceSettings => loadsStarted < MaxLoads
    /\ changes' = changes + 1
    /\ props' = [props EXCEPT ![key] = value]
    /\ IF key \in VoiceSettings
       THEN /\ loads' = Append(loads, props')
            /\ loadsStarted' = loadsStarted + 1
       ELSE UNCHANGED <<loads, loadsStarted>>
    /\ FrameEffect(imageData, model, props', FALSE)
    /\ UNCHANGED <<now, speechSynthesis, imageData, model, loading, error,
                   detections, lastAnnouncementTime, spokenAt, utterance, cycle>>

Remove(seq, i) == SubSeq(seq, 1, i - 1) \o SubSeq(seq, i + 1, Len(seq))

SpeechState ==
    [last |-> lastAnnouncementTime, spokenAt |-> spokenAt, utterance |-> utterance]

SetSpeechState(s) ==
    /\ lastAnnouncementTime' = s.last
    /\ spokenAt' = s.spokenAt
    /\ utterance' = s.utterance

(***************************************************************************)
(* loadModel resumes: tf.ready() and cocoSsd.load() have settled.          *)
(***************************************************************************)
LoadSucceeds(i) ==
    /\ i \in 1..Len(loads)
    /\ loads' = Remove(loads, i)
    /\ model' = model + 1
    /\ loading' = FALSE
    /\ SetSpeechState(speak(ReadyMessage, loads[i], SpeechState))
    /\ FrameEffect(imageData, model', props, FALSE)
    /\ UNCHANGED <<now, speechSynthesis, props, imageData, error, detections,
                   loadsStarted, changes, cycle>>

LoadFails(i) ==
    /\ i \in 1..Len(loads)
    /\ loads' = Remove(loads, i)
    /\ error' = LoadErrorMessage
    /\ loading' = FALSE
    /\ UNCHANGED <<now, speechSynthesis, props, imageData, model, detections,
                   lastAnnouncementTime, processingLock, awaiting, loadsStarted,
                   changes, spokenAt, utterance, cycle, rejected>>

(***************************************************************************)
(* processFrame resumes: model.detect has settled.                         *)
(***************************************************************************)
RECURSIVE decorate(_)
decorate(predictions) ==
    IF predictions = <<>> THEN <<>>
    ELSE LET pred == Head(predictions)
         IN  <<[bbox |-> pred.bbox, class |-> pred.class, score |-> pred.score,
                distance |-> estimateDistance(pred.bbox)]>>
             \o decorate(Tail(predictions))

Settled(i, ok, predictions) ==
    [ok |-> ok, threw |-> FALSE, imageData |-> awaiting[i].imageData,
     props |-> awaiting[i].props, predictions |-> predictions, at |-> now]

\* processFrame re-running the frame effect once it has released the lock
InferenceSucceedsRerunsEffect(i, predictions) ==
    /\ i \in 1..Len(awaiting)
    /\ LET processedDetections == decorate(predictions)
       IN  /\ detections' = processedDetections
           /\ SetSpeechState(announceDetections(processedDetections,
                                                awaiting[i].props, SpeechState))
    /\ IF imageData # awaiting[i].imageData
       THEN /\ processingLock' = TRUE
            /\ awaiting' = Append(Remove(awaiting, i),
                                  [imageData |-> imageData, props |-> props])
       ELSE /\ processingLock' = FALSE
            /\ awaiting' = Remove(awaiting, i)
    /\ cycle' = Settled(i, TRUE, predictions)
    /\ UNCHANGED <<now, speechSynthesis, props, imageData, model, loading,
                   error, loads, loadsStarted, changes, rejected>>

\* processFrame announcing with the settings of the latest render
InferenceSucceedsCurrentProps(i, predictions) ==
    /\ i \in 1..Len(awaiting)
    /\ LET processedDetections == decorate(predictions)
       IN  /\ detections' = processedDetections
           /\ SetSpeechState(announceDetections(processedDetections, props,
                                                SpeechState))
    /\ processingLock' = FALSE
    /\ awaiting' = Remove(awaiting, i)
    /\ cycle' = Settled(i, TRUE, predictions)
    /\ UNCHANGED <<now, speechSynthesis, props, imageData, model, loading,
                   error, loads, loadsStarted, changes, rejected>>

\* processFrame publishing the detections that pass the filter
InferenceSucceedsPublishesFiltered(i, predictions) ==
    /\ i \in 1..Len(awaiting)
    /\ LET processedDetections == decorate(predictions)
       IN  /\ detections' = filter(processedDetections,
                                   awaiting[i].props.filteredObjects)
           /\ SetSpeechState(announceDetections(processedDetections,
                                                awaiting[i].props, SpeechState))
    /\ processingLock' = FALSE
    /\ awaiting' = Remove(awaiting, i)
    /\ cycle' = Settled(i, TRUE, predictions)
    /\ UNCHANGED <<now, speechSynthesis, props, imageData, model, loading,
                   error, loads, loadsStarted, changes, rejected>>

InferenceSucceeds(i, predictions) ==
    /\ i \in 1..Len(awaiting)
    /\ LET processedDetections == decorate(predictions)
       IN  /\ detections' = processedDetections
           /\ SetSpeechState(announceDetections(processedDetections,
                                                awaiting[i].props, SpeechState))
    /\ processingLock' = FALSE
    /\ awaiting' = Remove(awaiting, i)
    /\ cycle' = Settled(i, TRUE, predictions)
    /\ UNCHANGED <<now, speechSynthesis, props, imageData, model, loading,
                   error, loads, loadsStarted, changes, rejected>>

(***************************************************************************)
(* processFrame resumes with the predictions, publishes them, and the      *)
(* speech capability throws under announceDetections (the constructor of   *)
(* the utterance or speechSynthesis.speak, both before the timestamp is    *)
(* written): the catch block sets the error, the finally block releases    *)
(* the lock.  This needs a call that reaches the speech capability.        *)
(***************************************************************************)
\* processFrame without its finally block when the announcement throws
AnnouncementThrowsKeepsLock(i, predictions) ==
    /\ i \in 1..Len(awaiting)
    /\ LET processedDetections == decorate(predictions)
       IN  /\ announceDetections(processedDetections, awaiting[i].props,
                                 SpeechState) # SpeechState
           /\ detections' = processedDetections
    /\ error' = FrameErrorMessage
    /\ awaiting' = Remove(awaiting, i)
    /\ cycle' = [Settled(i, FALSE, predictions) EXCEPT !.threw = TRUE]
    /\ UNCHANGED <<now, speechSynthesis, props, imageData, model, loading,
                   lastAnnouncementTime, processingLock, loads, loadsStarted,
                   changes, spokenAt, utterance, rejected>>

AnnouncementThrows(i, predictions) ==
    /\ i \in 1..Len(awaiting)
    /\ LET processedDetections == decorate(predictions)
       IN  /\ announceDetections(processedDetections, awaiting[i].props,
                                 SpeechState) # SpeechState
           /\ detections' = processedDetections
    /\ error' = FrameErrorMessage
    /\ processingLock' = FALSE
    /\ awaiting' = Remove(awaiting, i)
    /\ cycle' = [Settled(i, FALSE, predictions) EXCEPT !.threw = TRUE]
    /\ UNCHANGED <<now, speechSynthesis, props, imageData, model, loading,
                   lastAnnouncementTime, loads, loadsStarted, changes,
                   spokenAt, utterance, rejected>>

\* processFrame without its finally block on the failing path
InferenceFailsKeepsLock(i) ==
    /\ i \in 1..Len(awaiting)
    /\ error' = FrameErrorMessage
    /\ awaiting' = Remove(awaiting, i)
    /\ cycle' = Settled(i, FALSE, <<>>)
    /\ UNCHANGED <<now, speechSynthesis, props, imageData, model, loading,
                   detections, lastAnnouncementTime, processingLock, loads,
                   loadsStarted, changes, spokenAt, utterance, rejected>>

\* processFrame restarting the cooldown on the failing path
InferenceFailsStamps(i) ==
    /\ i \in 1..Len(awaiting)
    /\ error' = FrameErrorMessage
    /\ processingLock' = FALSE
    /\ awaiting' = Remove(awaiting, i)
    /\ cycle' = Settled(i, FALSE, <<>>)
    /\ lastAnnouncementTime' = now
    /\ UNCHANGED <<now, speechSynthesis, props, imageData, model, loading,
                   detections, loads, loadsStarted, changes, spokenAt,
                   utterance, rejected>>

\* processFrame clearing the published list on the failing path
InferenceFailsClearsList(i) ==
    /\ i \in 1..Len(awaiting)
    /\ error' = FrameErrorMessage
    /\ detections' = <<>>
    /\ processingLock' = FALSE
    /\ awaiting' = Remove(awaiting, i)
    /\ cycle' = Settled(i, FALSE, <<>>)
    /\ UNCHANGED <<now, speechSynthesis, props, imageData, model, loading,
                   lastAnnouncementTime, loads, loadsStarted, changes,
                   spokenAt, utterance, rejected>>

InferenceFails(i) ==
    /\ i \in 1..Len(awaiting)
    /\ error' = FrameErrorMessage
    /\ processingLock' = FALSE
    /\ awaiting' = Remove(awaiting, i)
    /\ cycle' = Settled(i, FALSE, <<>>)
    /\ UNCHANGED <<now, speechSynthesis, props, imageData, model, loading,
                   detections, lastAnnouncementTime, loads, loadsStarted,
                   changes, spokenAt, utterance, rejected>>

(***************************************************************************)
(* The render: the loading indicator while loading, else the error alert   *)
(* while error is set, else the detections in the order of the state.      *)
(***************************************************************************)
Rendered ==
    IF loading THEN [view |-> "loading", list |-> <<>>]
    ELSE IF error # "null" THEN [view |-> error, list |-> <<>>]
    ELSE [view |-> "detections", list |-> detections]

Next ==
    \/ Tick
    \/ FrameArrives
    \/ \E key \in DOMAIN SettingValues : \E value \in SettingValues[key] :
           ChangeSetting(key, value)
    \/ \E i \in 1..MaxLoads : LoadSucceeds(i)
    \/ \E i \in 1..MaxLoads : LoadFails(i)
    \/ \E i \in 1..MaxCycles : \E predictions \in SceneLists :
           InferenceSucceeds(i, predictions)
    \/ \E i \in 1..MaxCycles : InferenceFails(i)
    \/ \E i \in 1..MaxCycles : \E predictions \in SceneLists :
           AnnouncementThrows(i, predictions)

Spec == Init /\ [][Next]_vars

(***************************************************************************)
(* The cycles of a component whose model has loaded, for each warning      *)
(* distance and filter the user may have chosen before it did and each     *)
(* list the detection model may return.  The first load has just           *)
(* succeeded and has made its system-ready announcement.                   *)
(***************************************************************************)
SelectProps ==
    {[DefaultProps EXCEPT !.warningDistance = w, !.filteredObjects = f] :
         w \in {30, 60, 100},
         f \in {DefaultProps.filteredObjects, availableObjects, {"chair", "bus"}}}

InitSelect ==
    /\ now = StartTime
    /\ speechSynthesis = TRUE
    /\ props \in SelectProps
    /\ imageData = 0
    /\ model = 1
    /\ loading = FALSE
    /\ error = "null"
    /\ detections = <<>>
    /\ processingLock = FALSE
    /\ awaiting = <<>>
    /\ loads = <<>>
    /\ loadsStarted = 1
    /\ changes = Cardinality({k \in DOMAIN props : props[k] # DefaultProps[k]})
    /\ LET s == speak(ReadyMessage, DefaultProps,
                      [last |-> 0, spokenAt |-> <<>>, utterance |-> NoUtterance])
       IN  /\ lastAnnouncementTime = s.last
           /\ spokenAt = s.spokenAt
           /\ utterance = s.utterance
    /\ cycle = NoCycle
    /\ rejected = {}

NextSelect ==
    \/ Tick
    \/ FrameArrives
    \/ \E i \in 1..MaxCycles : \E predictions \in PredictionLists :
           InferenceSucceeds(i, predictions)
    \/ \E i \in 1..MaxCycles : InferenceFails(i)

SelectSpec == InitSelect /\ [][NextSelect]_vars

(***************************************************************************)
(* The cycles of a component whose model has loaded, when every awaited    *)
(* model.detect settles: a suspended processFrame call is eventually       *)
(* resumed.  Frames arrive and the warning distance and the filter are     *)
(* changed meanwhile.                                                      *)
(***************************************************************************)
Resumes ==
    \E i \in 1..MaxCycles :
        \/ \E predictions \in SceneLists : InferenceSucceeds(i, predictions)
        \/ \E predictions \in SceneLists : AnnouncementThrows(i, predictions)
        \/ InferenceFails(i)

NextFair ==
    \/ Tick
    \/ FrameArrives
    \/ \E key \in {"warningDistance", "filteredObjects"} :
           \E value \in SettingValues[key] : ChangeSetting(key, value)
    \/ Resumes

FairSpec == InitSelect /\ [][NextFair]_vars /\ WF_vars(Resumes)

(***************************************************************************)
(* Steps of the component, as the claims speak of them.                    *)
(***************************************************************************)
\* this step resumes the i-th suspended loadModel call, and the load succeeded
LoadSettlesOk(i) ==
    i \in 1..Len(loads) /\ loads' = Remove(loads, i) /\ model' = model + 1

\* this step resumes the i-th suspended processFrame call, and detect succeeded
CycleSettlesOk(i) ==
    /\ i \in 1..Len(awaiting)
    /\ awaiting' = Remove(awaiting, i)
    /\ cycle'.ok
    /\ cycle'.props = awaiting[i].props

\* a dispatch with this closure would pass every check of speak
Eligible(closure) ==
    /\ closure.voiceEnabled
    /\ speechSynthesis
    /\ now - lastAnnouncementTime >= ThrottleMs

SpeechUnchanged == UNCHANGED <<lastAnnouncementTime, spokenAt, utterance>>

\* this step gives one utterance to the speech capability, with this closure
Speaks(closure) ==
    /\ spokenAt' = Append(spokenAt, now)
    /\ lastAnnouncementTime' = now
    /\ utterance'.at = now
    /\ utterance'.rate = closure.voiceRate
    /\ utterance'.pitch = closure.voicePitch

(***************************************************************************)
(* C1.  Any two utterances handed to the speech capability have dispatch   *)
(* times at least 2000 ms apart.                                           *)
(***************************************************************************)
C1_UtterancesApart ==
    \A i, j \in 1..Len(spokenAt) :
        i < j => spokenAt[j] - spokenAt[i] >= 2000

\* two utterances have been spoken, the second not a system-ready message
C1_Witness ==
    Len(spokenAt) >= 2 /\ utterance.text # ReadyMessage

(***************************************************************************)
(* C2.  A dispatch attempt that is otherwise eligible (voice enabled in    *)
(* its closure, speech capability present, an announcement chosen) and is  *)
(* made 2000 ms or more after lastAnnouncementTime is spoken with the rate *)
(* and pitch of its closure and sets lastAnnouncementTime to now.          *)
(***************************************************************************)
C2_EligibleIsSpoken ==
    [][ /\ \A i \in 1..Len(loads) :
               LoadSettlesOk(i) /\ Eligible(loads[i])
                   => Speaks(loads[i]) /\ utterance'.text = ReadyMessage
        /\ \A i \in 1..Len(awaiting) :
               /\ CycleSettlesOk(i)
               /\ Eligible(awaiting[i].props)
               /\ \/ cycle'.predictions = <<>>
                  \/ \E k \in 1..Len(cycle'.predictions) :
                         cycle'.predictions[k].class
                             \in awaiting[i].props.filteredObjects
               => Speaks(awaiting[i].props)
      ]_vars

\* a cycle has just spoken with a rate other than the default
C2_Witness ==
    /\ cycle.ok /\ cycle.at = now /\ utterance.at = now
    /\ utterance.text # ReadyMessage
    /\ utterance.rate = 10
    /\ lastAnnouncementTime = now

(***************************************************************************)
(* C3.  A dispatch attempt made less than 2000 ms after                    *)
(* lastAnnouncementTime speaks nothing and leaves lastAnnouncementTime     *)
(* unchanged.                                                              *)
(***************************************************************************)
C3_SuppressedKeepsCooldown ==
    [][ (/\ now - lastAnnouncementTime < ThrottleMs
         /\ \/ \E i \in 1..Len(loads) : LoadSettlesOk(i)
            \/ \E i \in 1..Len(awaiting) : CycleSettlesOk(i))
        => SpeechUnchanged
      ]_vars

\* a cycle with an empty list and voice enabled has just settled within the
\* cooldown of the one utterance spoken so far
C3_Witness ==
    /\ cycle.ok /\ cycle.at = now /\ cycle.predictions = <<>>
    /\ cycle.props.voiceEnabled /\ speechSynthesis
    /\ Len(spokenAt) = 1
    /\ now - lastAnnouncementTime < ThrottleMs
    /\ now > lastAnnouncementTime

(***************************************************************************)
(* C4.  At most one detection cycle is in the Processing state at any      *)
(* time, and the lock is held exactly while one is.                        *)
(***************************************************************************)
C4_SingleFlight ==
    /\ Len(awaiting) <= 1
    /\ processingLock <=> Len(awaiting) = 1

\* a frame has arrived while a cycle was awaiting, and that cycle still is
C4_Witness ==
    /\ Len(awaiting) = 1
    /\ imageData \in rejected
    /\ awaiting[1].imageData # imageData

(***************************************************************************)
(* C5.  As claimed: no cycle ever runs detection on a frame whose arrival  *)
(* was rejected because the lock was held.                                 *)
(***************************************************************************)
C5_RejectedNeverProcessed ==
    \A i \in 1..Len(awaiting) : awaiting[i].imageData \notin rejected

(***************************************************************************)
(* C5, amended.  A frame that arrives while the lock is held starts no     *)
(* cycle and is not queued: the step that releases the lock starts none.   *)
(* A cycle on a frame rejected earlier starts only in a step that changes  *)
(* a setting or the model while that frame is still the imageData prop.    *)
(***************************************************************************)
\* this step starts a cycle on frame f
CycleStartsOn(f) ==
    /\ Len(awaiting') > 0
    /\ awaiting'[Len(awaiting')].imageData = f
    /\ \/ Len(awaiting') > Len(awaiting)
       \/ awaiting'[Len(awaiting')] \notin {awaiting[i] : i \in 1..Len(awaiting)}

C5_RejectedOnlyOnRerun ==
    [][ /\ (imageData' # imageData /\ processingLock)
            => (awaiting' = awaiting /\ imageData' \in rejected')
        /\ (\E i \in 1..Len(awaiting) : awaiting' = Remove(awaiting, i))
            => ~processingLock'
        /\ \A f \in rejected :
               CycleStartsOn(f)
                   => /\ f = imageData /\ imageData' = imageData
                      /\ props' # props \/ model' # model
      ]_vars

\* a cycle is awaiting on a frame that was rejected when it arrived
C5_Witness ==
    \E i \in 1..Len(awaiting) : awaiting[i].imageData \in rejected

(***************************************************************************)
(* C6.  When the decorated list of a cycle is empty, the announcement is   *)
(* exactly "Path is clear ahead" whatever filteredObjects holds, and it is *)
(* spoken if voice is enabled and the throttle allows.                     *)
(***************************************************************************)
C6_EmptyListPathClear ==
    [][ \A i \in 1..Len(awaiting) :
            CycleSettlesOk(i) /\ detections' = <<>> /\ Eligible(awaiting[i].props)
                => /\ Speaks(awaiting[i].props)
                   /\ utterance'.text = "Path is clear ahead"
      ]_vars

\* the clear path has just been announced by a cycle whose filter is not
\* the default one
C6_Witness ==
    /\ cycle.ok /\ cycle.at = now /\ detections = <<>>
    /\ cycle.props.filteredObjects = {"chair"}
    /\ utterance.text = "Path is clear ahead" /\ utterance.at = now

(***************************************************************************)
(* C7.  When the detection list is not empty but no detection's class is   *)
(* in filteredObjects, the cycle speaks nothing, leaves                    *)
(* lastAnnouncementTime unchanged and still publishes the decorated list.  *)
(***************************************************************************)
C7_AllFilteredOutSilent ==
    [][ \A i \in 1..Len(awaiting) :
            /\ CycleSettlesOk(i)
            /\ cycle'.predictions # <<>>
            /\ \A k \in 1..Len(cycle'.predictions) :
                   cycle'.predictions[k].class
                       \notin awaiting[i].props.filteredObjects
            => /\ SpeechUnchanged
               /\ Len(detections') = Len(cycle'.predictions)
               /\ \A k \in 1..Len(detections') :
                      /\ detections'[k].class = cycle'.predictions[k].class
                      /\ detections'[k].bbox = cycle'.predictions[k].bbox
                      /\ detections'[k].score = cycle'.predictions[k].score
                      /\ detections'[k].distance
                             = estimateDistance(cycle'.predictions[k].bbox)
      ]_vars

\* a cycle that could have spoken has just published a dog and said nothing
C7_Witness ==
    /\ cycle.ok /\ cycle.at = now /\ cycle.predictions = <<DogAt2>>
    /\ Len(detections) = 1 /\ detections[1].class = "dog"
    /\ Eligible(cycle.props)
    /\ utterance.at < now

(***************************************************************************)
(* C8.  The detection announced in a cycle is a lexicographic minimum of   *)
(* (priority tier, estimated distance) over the detections whose class is  *)
(* in filteredObjects: none of them has a strictly lower tier, and none of *)
(* the same tier a strictly shorter distance.                              *)
(***************************************************************************)
\* the k-th published detection passes the filter of the closure
InFilter(dets, k, closure) == dets[k].class \in closure.filteredObjects

C8_AnnouncesLexMinimum ==
    [][ \A i \in 1..Len(awaiting) :
            /\ CycleSettlesOk(i)
            /\ Eligible(awaiting[i].props)
            /\ \E k \in 1..Len(detections') :
                   InFilter(detections', k, awaiting[i].props)
            => \E k \in 1..Len(detections') :
                   LET closure == awaiting[i].props
                       w == closure.warningDistance
                       chosen == detections'[k]
                   IN  /\ InFilter(detections', k, closure)
                       /\ utterance'.at = now
                       /\ utterance'.text = composeMessage(chosen, w)
                       /\ \A j \in 1..Len(detections') :
                              InFilter(detections', j, closure) =>
                                  LET other == detections'[j]
                                      tierOther == getPriorityLevel(other, w)
                                      tierChosen == getPriorityLevel(chosen, w)
                                  IN  /\ ~(tierOther < tierChosen)
                                      /\ ~(/\ tierOther = tierChosen
                                           /\ other.distance < chosen.distance)
      ]_vars

\* a car at 2.0 m listed before a chair at 1.0 m, threshold 3: both are of
\* tier 2 and the chair has just been announced
C8_Witness ==
    /\ cycle.ok /\ cycle.at = now
    /\ cycle.predictions = <<CarAt2, ChairAt1>>
    /\ cycle.props.warningDistance = 30
    /\ {"car", "chair"} \subseteq cycle.props.filteredObjects
    /\ utterance.at = now
    /\ utterance.text = "Warning! chair detected on your right, 1.0 meters away"

(***************************************************************************)
(* C9.  The message for the selected detection is "<class> detected        *)
(* <direction>, <distance to one decimal> meters away", with the prefix    *)
(* "Warning! " if and only if its distance is strictly less than           *)
(* 0.5 x warningDistance.                                                  *)
(***************************************************************************)
C9_Expected(detection, warningDistance) ==
    LET body == detection.class \o " detected "
                \o getDirectionalGuidance(detection.bbox) \o ", "
                \o ToString(detection.distance \div 10) \o "."
                \o ToString(detection.distance % 10) \o " meters away"
    IN  IF 2 * detection.distance < warningDistance
        THEN "Warning! " \o body
        ELSE body

C9_MessageFormat ==
    [][ \A i \in 1..Len(awaiting) :
            /\ CycleSettlesOk(i)
            /\ Eligible(awaiting[i].props)
            /\ \E k \in 1..Len(detections') :
                   InFilter(detections', k, awaiting[i].props)
            => \E k \in 1..Len(detections') :
                   /\ InFilter(detections', k, awaiting[i].props)
                   /\ utterance'.at = now
                   /\ utterance'.text
                          = C9_Expected(detections'[k],
                                        awaiting[i].props.warningDistance)
      ]_vars

\* a person at 5.0 m with threshold 10: exactly half of it, so no prefix
C9_Witness ==
    /\ cycle.ok /\ cycle.at = now
    /\ cycle.predictions = <<PersonAt5>>
    /\ cycle.props.warningDistance = 100
    /\ utterance.at = now
    /\ utterance.text = "person detected on your right, 5.0 meters away"

(***************************************************************************)
(* C10.  As claimed: getPriorityLevel equals the decision table for every  *)
(* class, distance and threshold: dangerous -> 1 if distance <             *)
(* 0.5 x threshold, else 2 if distance < threshold, else 3; obstacle -> 2  *)
(* if distance < 0.4 x threshold, else 4; any other class -> 5.  The       *)
(* detections shown are ranked with the current warningDistance.           *)
(***************************************************************************)
C10_Table(class, distance, threshold) ==
    IF class \in {"person", "car", "truck", "motorcycle", "bicycle", "bus"}
    THEN IF 2 * distance < threshold THEN 1
         ELSE IF distance < threshold THEN 2
         ELSE 3
    ELSE IF class \in {"chair", "bench", "pole", "fire hydrant", "stop sign"}
    THEN IF 10 * distance < 4 * threshold THEN 2
         ELSE 4
    ELSE 5

C10_DecisionTable ==
    \A k \in 1..Len(detections) :
        getPriorityLevel(detections[k], props.warningDistance)
            = C10_Table(detections[k].class, detections[k].distance,
                        props.warningDistance)

(***************************************************************************)
(* C11.  For every class, distance and threshold the priority tier is in   *)
(* {1,2,3,4,5}, and for a fixed class and threshold it does not decrease   *)
(* as the distance increases.  Checked on every distance of 0.0 to         *)
(* MaxDistance tenths and Infinity against every value of the slider, and  *)
(* on the detections shown, which the render ranks with the current        *)
(* warningDistance.                                                        *)
(***************************************************************************)
C11_Distances == 0..MaxDistance \cup {Infinity}

C11_Classes == dangerousObjects \cup obstacles \cup {"dog"}

C11_Tier(class, distance, w) ==
    getPriorityLevel([class |-> class, distance |-> distance], w)

C11_OnGrid ==
    \A class \in C11_Classes : \A w \in WarningDistances :
        \A d1 \in C11_Distances :
            /\ C11_Tier(class, d1, w) \in 1..5
            /\ \A d2 \in C11_Distances :
                   d1 <= d2 => C11_Tier(class, d1, w) <= C11_Tier(class, d2, w)

C11_TierRangeAndMonotone ==
    /\ C11_OnGrid
    /\ \A j \in 1..Len(detections) :
           LET w == props.warningDistance
           IN  /\ getPriorityLevel(detections[j], w) \in {1, 2, 3, 4, 5}
               /\ \A k \in 1..Len(detections) :
                      /\ detections[j].class = detections[k].class
                      /\ detections[j].distance <= detections[k].distance
                      => getPriorityLevel(detections[j], w)
                             <= getPriorityLevel(detections[k], w)

\* two persons are shown, the nearer of tier 1 and the farther of tier 3
C11_Witness ==
    /\ Len(detections) = 2
    /\ detections[1].class = "person" /\ detections[2].class = "person"
    /\ detections[1].distance < detections[2].distance
    /\ getPriorityLevel(detections[1], props.warningDistance) = 1
    /\ getPriorityLevel(detections[2], props.warningDistance) = 3

(***************************************************************************)
(* C12.  If model inference fails during a cycle, that cycle dispatches no *)
(* speech, leaves lastAnnouncementTime unchanged and releases the          *)
(* processing lock, and the next frame to arrive starts a new cycle.       *)
(***************************************************************************)
\* this step resumes the i-th suspended processFrame call, and detect failed
CycleSettlesFailed(i) ==
    /\ i \in 1..Len(awaiting)
    /\ awaiting' = Remove(awaiting, i)
    /\ ~cycle'.ok
    /\ cycle'.imageData = awaiting[i].imageData

C12_FailedCycleSilentAndReleases ==
    [][ /\ \A i \in 1..Len(awaiting) :
               CycleSettlesFailed(i)
                   => /\ SpeechUnchanged
                      /\ ~processingLock'
                      /\ awaiting' = <<>>
        /\ (/\ cycle # NoCycle /\ ~cycle.ok
            /\ awaiting = <<>> /\ model # 0
            /\ imageData' # imageData)
            => /\ CycleStartsOn(imageData')
               /\ processingLock'
      ]_vars

\* a cycle failed when it could have spoken, and the next frame is in a cycle
C12_Witness ==
    /\ cycle # NoCycle /\ ~cycle.ok /\ cycle.at = now
    /\ Eligible(cycle.props)
    /\ Len(awaiting) = 1
    /\ awaiting[1].imageData = cycle.imageData + 1

(***************************************************************************)
(* C13.  As claimed: an inference failure leaves no trace once a later     *)
(* cycle has succeeded: unless the model failed to load, the error state   *)
(* is null and the list of that cycle is what the user is shown.           *)
(***************************************************************************)
C13_SelfHealing ==
    cycle.ok /\ error # LoadErrorMessage
        => /\ error = "null"
           /\ Rendered = [view |-> "detections", list |-> detections]

(***************************************************************************)
(* C14.  As claimed: a detection whose bounding box has zero area is       *)
(* skipped: it is not in the published list and is not announced.          *)
(***************************************************************************)
C14_ZeroAreaSkipped ==
    /\ \A k \in 1..Len(detections) :
           detections[k].bbox[3] * detections[k].bbox[4] # 0
    /\ utterance.text # "person detected on your left, Infinity meters away"

(***************************************************************************)
(* C15.  The cooldown is shared by all message types, the system-ready     *)
(* announcement included: whatever the latest utterance said, a load or a  *)
(* cycle that settles less than 2000 ms after it speaks nothing, even when *)
(* the cycle has chosen a tier-1 "Warning!" message.                       *)
(***************************************************************************)
C15_SharedCooldown ==
    [][ (/\ Len(spokenAt) > 0
         /\ now - utterance.at < 2000
         /\ \/ \E i \in 1..Len(loads) : LoadSettlesOk(i)
            \/ \E i \in 1..Len(awaiting) : CycleSettlesOk(i))
        => /\ SpeechUnchanged
           /\ lastAnnouncementTime = utterance.at
      ]_vars

\* a cycle with a person of tier 1 in its filter, voice enabled, has just
\* settled within the cooldown of a system-ready or clear-path message and
\* has not spoken
C15_Witness ==
    /\ cycle.ok /\ cycle.at = now
    /\ cycle.predictions = <<PersonAt1>>
    /\ getPriorityLevel(detections[1], cycle.props.warningDistance) = 1
    /\ "person" \in cycle.props.filteredObjects
    /\ cycle.props.voiceEnabled /\ speechSynthesis
    /\ utterance.text \in {ReadyMessage, PathClearMessage}
    /\ utterance.at < now /\ now - utterance.at < 2000

(***************************************************************************)
(* C16.  When voiceEnabled is false in the closure of the attempt, when    *)
(* the speech capability is absent, or when the cycle chose no             *)
(* announcement, the dispatch does nothing: no utterance, the same         *)
(* lastAnnouncementTime, and no error state set.                           *)
(***************************************************************************)
C16_Muted(closure) == ~closure.voiceEnabled \/ ~speechSynthesis

C16_DispatcherNoOp ==
    [][ /\ \A i \in 1..Len(loads) :
               LoadSettlesOk(i) /\ C16_Muted(loads[i])
                   => SpeechUnchanged /\ error' = error
        /\ \A i \in 1..Len(awaiting) :
               /\ CycleSettlesOk(i)
               /\ \/ C16_Muted(awaiting[i].props)
                  \/ /\ detections' # <<>>
                     /\ \A k \in 1..Len(detections') :
                            ~InFilter(detections', k, awaiting[i].props)
               => SpeechUnchanged /\ error' = error
      ]_vars

\* speech is present and the cooldown has elapsed, and a cycle started with
\* voice disabled has just published a person of its filter, said nothing
\* and set no error
C16_Witness ==
    /\ cycle.ok /\ cycle.at = now
    /\ cycle.predictions = <<PersonAt1>>
    /\ "person" \in cycle.props.filteredObjects
    /\ ~cycle.props.voiceEnabled /\ speechSynthesis
    /\ now - lastAnnouncementTime >= ThrottleMs
    /\ lastAnnouncementTime > 0
    /\ error = "null"

(***************************************************************************)
(* C17.  As claimed: the list a cycle publishes for display is ranked in   *)
(* ascending order of (priority tier, estimated distance).                 *)
(***************************************************************************)
C17_PublishedListRanked ==
    cycle.ok =>
        \A j, k \in 1..Len(detections) :
            j < k =>
                LET w == cycle.props.warningDistance
                    tj == getPriorityLevel(detections[j], w)
                    tk == getPriorityLevel(detections[k], w)
                IN  \/ tj < tk
                    \/ tj = tk /\ detections[j].distance <= detections[k].distance

(***************************************************************************)
(* C18.  As claimed: once the detection model has failed to load, the      *)
(* error state persists, no further load of the model is attempted and no  *)
(* detection cycle starts, whatever frames arrive or settings change.      *)
(***************************************************************************)
C18_LoadFailureDisables ==
    [][ error = LoadErrorMessage
            => /\ error' = LoadErrorMessage
               /\ loadsStarted' = loadsStarted
               /\ model' = model
               /\ \A f \in 1..MaxFrames + 1 : ~CycleStartsOn(f)
      ]_vars

(***************************************************************************)
(* C19.  getDirectionalGuidance returns one of three labels, determined    *)
(* by centerX = x + width / 2 alone: "on your left" if centerX < 0.3,      *)
(* "on your right" if centerX > 0.7, otherwise "directly ahead", the       *)
(* boundary values 0.3 and 0.7 included; boxes with equal centerX get the  *)
(* same label.  Checked on every box with x from 0.0 to MaxCoordinate      *)
(* tenths and width up to twice that, and on the detections published and  *)
(* announced.                                                              *)
(***************************************************************************)
\* the label the claim gives to centerX = c20 / 20
C19_Label(c20) ==
    IF c20 < 6 THEN "on your left"
    ELSE IF c20 > 14 THEN "on your right"
    ELSE "directly ahead"

C19_GridBoxes ==
    {<<x, 0, width, 2>> : x \in 0..MaxCoordinate, width \in 0..2 * MaxCoordinate}

C19_OnGrid ==
    \A b1 \in C19_GridBoxes :
        /\ getDirectionalGuidance(b1)
               \in {"on your left", "on your right", "directly ahead"}
        /\ getDirectionalGuidance(b1) = C19_Label(2 * b1[1] + b1[3])
        /\ \A b2 \in C19_GridBoxes :
               2 * b1[1] + b1[3] = 2 * b2[1] + b2[3]
                   => getDirectionalGuidance(b1) = getDirectionalGuidance(b2)

C19_DirectionalLabel ==
    [][ /\ C19_OnGrid
        /\ \A k \in 1..Len(detections') :
               LET bbox == detections'[k].bbox
               IN  getDirectionalGuidance(bbox) = C19_Label(2 * bbox[1] + bbox[3])
        /\ \A i \in 1..Len(awaiting) :
               /\ CycleSettlesOk(i)
               /\ utterance' # utterance
               /\ detections' # <<>>
               => \E k \in 1..Len(detections') :
                      LET d == detections'[k]
                          body == d.class \o " detected "
                                  \o C19_Label(2 * d.bbox[1] + d.bbox[3]) \o ", "
                                  \o toFixed1(d.distance) \o " meters away"
                      IN  utterance'.text \in {body, "Warning! " \o body}
      ]_vars

\* a car whose centerX is exactly 0.7 has just been announced as ahead
C19_Witness ==
    /\ cycle.ok /\ cycle.at = now /\ utterance.at = now
    /\ cycle.predictions = <<CarRightEdge>>
    /\ 2 * detections[1].bbox[1] + detections[1].bbox[3] = 14
    /\ utterance.text = "car detected directly ahead, 5000.0 meters away"

(***************************************************************************)
(* C20.  For bounding boxes of positive area estimateDistance does not     *)
(* increase with the area: a box of larger area never gets a strictly      *)
(* larger distance.  Checked on the boxes with sides of 0.1, 0.2, 0.5 and  *)
(* 1.0 and of every multiple of 40 up to 40 x MaxSide, and on the          *)
(* detections published.                                                   *)
(***************************************************************************)
C20_Sides == {1, 2, 5, 10} \cup {400 * k : k \in 1..MaxSide}

C20_GridBoxes == {<<0, 0, width, height>> : width \in C20_Sides, height \in C20_Sides}

C20_Distance == [b \in C20_GridBoxes |-> estimateDistance(b)]

C20_OnGrid ==
    \A b1, b2 \in C20_GridBoxes :
        b1[3] * b1[4] <= b2[3] * b2[4] => C20_Distance[b1] >= C20_Distance[b2]

C20_DistanceMonotone ==
    /\ C20_OnGrid
    /\ \A j, k \in 1..Len(detections) :
           LET areaJ == detections[j].bbox[3] * detections[j].bbox[4]
               areaK == detections[k].bbox[3] * detections[k].bbox[4]
           IN  0 < areaJ /\ areaJ <= areaK
                   => detections[j].distance >= detections[k].distance

\* a larger and a smaller box are published, the larger strictly nearer
C20_Witness ==
    /\ Len(detections) = 2
    /\ detections[1].bbox[3] * detections[1].bbox[4]
           > detections[2].bbox[3] * detections[2].bbox[4]
    /\ detections[2].bbox[3] * detections[2].bbox[4] > 0
    /\ detections[1].distance < detections[2].distance

(***************************************************************************)
(* C21.  As claimed (Scenario B): for the single detection of a person     *)
(* with box (0.1, 0.1, 0.2, 0.2) and score 0.9, threshold 3 and "person"   *)
(* in the filter, the estimated distance is 5.0 and the message is         *)
(* "person detected on your left, 5.0 meters away".                        *)
(***************************************************************************)
\* this step settles an eligible cycle of Scenario B
C21_ScenarioB(i) ==
    /\ CycleSettlesOk(i)
    /\ cycle'.predictions
           = <<[bbox |-> <<1, 1, 2, 2>>, class |-> "person", score |-> 90]>>
    /\ awaiting[i].props.warningDistance = 30
    /\ "person" \in awaiting[i].props.filteredObjects
    /\ Eligible(awaiting[i].props)

C21_ScenarioBAsClaimed ==
    [][ \A i \in 1..Len(awaiting) :
            C21_ScenarioB(i)
                => /\ detections'[1].distance = 50
                   /\ utterance'.text
                          = "person detected on your left, 5.0 meters away"
      ]_vars

(***************************************************************************)
(* C21, amended.  In Scenario B the estimated distance is 5000.0           *)
(* (sqrt(1000000 / 0.04)) and the message is "person detected on your      *)
(* left, 5000.0 meters away", with no "Warning!" prefix.                   *)
(***************************************************************************)
C21_ScenarioBDistance ==
    [][ \A i \in 1..Len(awaiting) :
            C21_ScenarioB(i)
                => /\ Len(detections') = 1
                   /\ detections'[1].distance = 50000
                   /\ utterance'.at = now
                   /\ utterance'.text
                          = "person detected on your left, 5000.0 meters away"
      ]_vars

\* the cycle of Scenario B has just spoken
C21_Witness ==
    /\ cycle.ok /\ cycle.at = now /\ utterance.at = now
    /\ cycle.predictions = <<PersonLeft>>
    /\ cycle.props.warningDistance = 30
    /\ "person" \in cycle.props.filteredObjects
    /\ Len(detections) = 1 /\ detections[1].bbox = <<1, 1, 2, 2>>
    /\ utterance.text # ReadyMessage

(***************************************************************************)
(* C22.  The selection is deterministic and idempotent: for the same       *)
(* decorated list, filteredObjects and warningDistance it chooses the same *)
(* message, whatever lastAnnouncementTime holds and whatever earlier       *)
(* cycles did.  A cycle that speaks says what the selection says when run  *)
(* again on its list from the state of a fresh session.                    *)
(***************************************************************************)
C22_FreshSession ==
    [last |-> 0, spokenAt |-> <<>>, utterance |-> NoUtterance]

\* the message announceDetections hands to the speech capability from the
\* speech state s, "(nothing)" if it hands it none
C22_Chosen(dets, closure, s) ==
    LET after == announceDetections(dets, closure, s)
    IN  IF after = s THEN "(nothing)" ELSE after.utterance.text

C22_SelectionDeterministic ==
    [][ \A i \in 1..Len(awaiting) :
            CycleSettlesOk(i) /\ Eligible(awaiting[i].props)
                => LET closure == awaiting[i].props
                       again == C22_Chosen(detections', closure, SpeechState)
                       fresh == C22_Chosen(detections', closure, C22_FreshSession)
                   IN  /\ again = fresh
                       /\ IF fresh = "(nothing)"
                          THEN SpeechUnchanged
                          ELSE utterance'.at = now /\ utterance'.text = fresh
      ]_vars

\* after an earlier utterance a cycle has just chosen among two detections
\* of its filter and spoken
C22_Witness ==
    /\ cycle.ok /\ cycle.at = now /\ utterance.at = now
    /\ Len(spokenAt) >= 2
    /\ Len(detections) = 2
    /\ detections[1] # detections[2]
    /\ \A k \in 1..2 : InFilter(detections, k, cycle.props)
    /\ utterance.text # ReadyMessage

(***************************************************************************)
(* C23.  lastAnnouncementTime is written only by speak, and only together  *)
(* with an utterance: a step that changes it is a load or a cycle settling *)
(* successfully that hands one utterance to the speech capability at now;  *)
(* a frame arriving (started or dropped), a settings change, a clock       *)
(* advance and a failed inference leave it unchanged.                      *)
(***************************************************************************)
C23_WrittenOnlyBySpeak ==
    [][ /\ lastAnnouncementTime' # lastAnnouncementTime
            => /\ lastAnnouncementTime' = now
               /\ spokenAt' = Append(spokenAt, now)
               /\ utterance'.at = now
               /\ \/ \E i \in 1..Len(loads) : LoadSettlesOk(i)
                  \/ \E i \in 1..Len(awaiting) : CycleSettlesOk(i)
        /\ (\/ imageData' # imageData
            \/ props' # props
            \/ now' # now
            \/ error' # error
            \/ \E i \in 1..Len(awaiting) : CycleSettlesFailed(i))
            => lastAnnouncementTime' = lastAnnouncementTime
      ]_vars

\* after an utterance a frame was dropped, a setting was changed and an
\* inference has failed, and lastAnnouncementTime is still its time
C23_Witness ==
    /\ Len(spokenAt) = 1 /\ lastAnnouncementTime = spokenAt[1]
    /\ rejected # {} /\ changes > 0
    /\ cycle # NoCycle /\ ~cycle.ok /\ cycle.at > lastAnnouncementTime
    /\ cycle.props.voiceEnabled

(***************************************************************************)
(* C24.  Every cycle that starts returns to Idle with the lock released,   *)
(* whether inference succeeds, inference fails or the announcement throws, *)
(* provided the awaited inference settles: a held lock is eventually       *)
(* released, and the lock is never held when no cycle is in flight.        *)
(***************************************************************************)
C24_LockReleased ==
    /\ processingLock ~> ~processingLock
    /\ [](awaiting = <<>> => ~processingLock)

\* the announcement of a cycle has just thrown, and the lock is free
C24_Witness ==
    /\ cycle.threw /\ cycle.at = now
    /\ detections # <<>>
    /\ error = FrameErrorMessage
    /\ awaiting = <<>> /\ ~processingLock

(***************************************************************************)
(* C25.  Each cycle uses the settings of the render that started it: a     *)
(* cycle that starts records the settings current at that moment, and      *)
(* when its inference settles the selection and the dispatch use them      *)
(* (filter, warning distance, voice switch, rate and pitch), whatever the  *)
(* settings have become meanwhile.                                         *)
(***************************************************************************)
C25_ConfigSnapshot ==
    [][ /\ \A f \in 1..MaxFrames + 1 :
               CycleStartsOn(f) => awaiting'[Len(awaiting')].props = props'
        /\ \A i \in 1..Len(awaiting) :
               CycleSettlesOk(i)
                   => LET snapshot == awaiting[i].props
                          expected == announceDetections(detections', snapshot,
                                                         SpeechState)
                      IN  /\ props' = props
                          /\ lastAnnouncementTime' = expected.last
                          /\ utterance' = expected.utterance
                          /\ utterance' # utterance
                                 => /\ snapshot.voiceEnabled
                                    /\ utterance'.rate = snapshot.voiceRate
                                    /\ utterance'.pitch = snapshot.voicePitch
      ]_vars

\* voice was switched off while the inference was in flight, and the cycle
\* has just spoken all the same
C25_Witness ==
    /\ cycle.ok /\ cycle.at = now /\ utterance.at = now
    /\ utterance.text # ReadyMessage
    /\ cycle.props.voiceEnabled /\ ~props.voiceEnabled
    /\ awaiting = <<>>

(***************************************************************************)
(* C26.  lastAnnouncementTime is always the dispatch time of the most      *)
(* recent utterance (0 if nothing has been spoken) and never decreases;    *)
(* the first attempt of a session that has voice, speech and a message is  *)
(* spoken.                                                                 *)
(***************************************************************************)
C26_LastIsLatestUtterance ==
    /\ [](lastAnnouncementTime
             = IF spokenAt = <<>> THEN 0 ELSE spokenAt[Len(spokenAt)])
    /\ [](spokenAt # <<>> => utterance.at = lastAnnouncementTime)
    /\ [][ /\ lastAnnouncementTime' >= lastAnnouncementTime
           /\ spokenAt = <<>> =>
                  /\ \A i \in 1..Len(loads) :
                         /\ LoadSettlesOk(i)
                         /\ loads[i].voiceEnabled /\ speechSynthesis
                         => spokenAt' = <<now>>
                  /\ \A i \in 1..Len(awaiting) :
                         /\ CycleSettlesOk(i)
                         /\ awaiting[i].props.voiceEnabled /\ speechSynthesis
                         /\ \/ detections' = <<>>
                            \/ \E k \in 1..Len(detections') :
                                   InFilter(detections', k, awaiting[i].props)
                         => spokenAt' = <<now>>
         ]_vars

\* two utterances have been spoken and the clock has moved on since
C26_Witness ==
    /\ Len(spokenAt) = 2
    /\ spokenAt[2] > spokenAt[1]
    /\ lastAnnouncementTime = spokenAt[2]
    /\ now > lastAnnouncementTime

(***************************************************************************)
(* C27.  The model-load effect is re-run by every change of voiceEnabled,  *)
(* voiceRate or voicePitch, and by no other change: such a change starts a *)
(* load with the new settings, and a load that succeeds attempts the       *)
(* system-ready announcement again, which is spoken and restarts the       *)
(* cooldown when its voice is enabled, speech is present and the cooldown  *)
(* has elapsed.                                                            *)
(***************************************************************************)
C27_VoiceChanged ==
    \E key \in {"voiceEnabled", "voiceRate", "voicePitch"} : props'[key] # props[key]

C27_ReloadOnVoiceChange ==
    [][ /\ C27_VoiceChanged
            => /\ loadsStarted' = loadsStarted + 1
               /\ loads' = Append(loads, props')
        /\ (props' # props /\ ~C27_VoiceChanged)
            => loads' = loads /\ loadsStarted' = loadsStarted
        /\ \A i \in 1..Len(loads) :
               LoadSettlesOk(i) /\ model # 0
                   => /\ model' = model + 1
                      /\ IF Eligible(loads[i])
                         THEN /\ Speaks(loads[i])
                              /\ utterance'.text = ReadyMessage
                         ELSE SpeechUnchanged
      ]_vars

\* the model has loaded twice and the system-ready message has just been
\* spoken for the second time, at the rate the user changed to
C27_Witness ==
    /\ model = 2 /\ loadsStarted = 2
    /\ Len(spokenAt) = 2
    /\ utterance.text = ReadyMessage /\ utterance.at = now
    /\ utterance.rate = 10
    /\ lastAnnouncementTime = now

(***************************************************************************)
(* C28.  The list a successful cycle publishes depends on the predictions  *)
(* alone, not on filteredObjects, voiceEnabled or the cooldown: one entry  *)
(* per prediction, in the model's order, with class, bbox and score        *)
(* unchanged and distance = estimateDistance(bbox).                        *)
(***************************************************************************)
C28_Published(predictions) ==
    [k \in 1..Len(predictions) |->
        [bbox |-> predictions[k].bbox, class |-> predictions[k].class,
         score |-> predictions[k].score,
         distance |-> estimateDistance(predictions[k].bbox)]]

C28_PublishedListFromPredictions ==
    [][ \A i \in 1..Len(awaiting) :
            CycleSettlesOk(i) => detections' = C28_Published(cycle'.predictions)
      ]_vars

\* a cycle with voice disabled and a filter that holds neither class has
\* just published the dog and the person in the model's order
C28_Witness ==
    /\ cycle.ok /\ cycle.at = now
    /\ cycle.predictions = <<DogAt2, PersonAt5>>
    /\ ~cycle.props.voiceEnabled
    /\ cycle.props.filteredObjects = {"chair"}
    /\ Len(detections) = 2
    /\ detections[1].class = "dog" /\ detections[1].distance = 20
    /\ detections[2].class = "person" /\ detections[2].distance = 50

(***************************************************************************)
(* C29.  A cycle whose inference fails leaves the published list as it     *)
(* was (the list of the last successful cycle is kept, not cleared) and    *)
(* sets the error state; a cycle that succeeds later does not reset the    *)
(* error state to null.                                                    *)
(***************************************************************************)
C29_StaleListKeptErrorSticks ==
    [][ \A i \in 1..Len(awaiting) :
            /\ (CycleSettlesFailed(i) /\ ~cycle'.threw)
                   => /\ detections' = detections
                      /\ error' = FrameErrorMessage
            /\ (CycleSettlesOk(i) /\ error # "null") => error' # "null"
      ]_vars

\* detect has just failed in a cycle that follows a successful one: the
\* list of the successful cycle is still published and the error is set
C29_Witness ==
    /\ cycle # NoCycle /\ ~cycle.ok /\ ~cycle.threw /\ cycle.at = now
    /\ detections # <<>>
    /\ error = FrameErrorMessage
    /\ awaiting = <<>>

(***************************************************************************)
(* C30.  As claimed: when a cycle announces a detection, for a dangerous   *)
(* class the "Warning! " prefix is present exactly when its tier is 1, and *)
(* for an obstacle class with 0.4 x threshold <= distance < 0.5 x          *)
(* threshold the prefix is present while the tier is 4.                    *)
(***************************************************************************)
C30_Body(d) ==
    d.class \o " detected " \o getDirectionalGuidance(d.bbox) \o ", "
    \o toFixed1(d.distance) \o " meters away"

C30_InBand(distance, threshold) ==
    /\ distance # Infinity
    /\ 4 * threshold <= 10 * distance
    /\ 2 * distance < threshold

C30_PrefixAndTier ==
    [][ \A i \in 1..Len(awaiting) :
            /\ CycleSettlesOk(i)
            /\ utterance' # utterance
            => \A k \in 1..Len(detections') :
                   LET d == detections'[k]
                       w == awaiting[i].props.warningDistance
                       tier == getPriorityLevel(d, w)
                       prefixed == utterance'.text = "Warning! " \o C30_Body(d)
                   IN  /\ InFilter(detections', k, awaiting[i].props)
                       /\ utterance'.text
                              \in {C30_Body(d), "Warning! " \o C30_Body(d)}
                       => /\ d.class \in dangerousObjects
                              => (prefixed <=> tier = 1)
                          /\ (d.class \in obstacles /\ C30_InBand(d.distance, w))
                              => (prefixed /\ tier = 4)
      ]_vars

====
